---- MODULE Spec2Model ----
(***************************************************************************)
(* movcat: lossless concatenation of mov files (src/src/main.rs).          *)
(*                                                                         *)
(* One run of the tool is a process p: main expands the input tokens       *)
(* (expand_glob_patterns), validates the files (validate_input_files,      *)
(* analyze_mov_file), probes for ffmpeg (concatenate_mov_files) and then   *)
(* builds, writes, feeds to ffmpeg and removes the file list               *)
(* (concatenate_with_ffmpeg).  The directory, and the file list at         *)
(* temp_dir()/movcat_filelist.txt, are shared by all runs.                 *)
(*                                                                         *)
(* A path or a token is the sequence of its character codes; the files     *)
(* live in one directory, so a path is a file name.                        *)
(***************************************************************************)
EXTENDS Integers, Sequences, FiniteSets, TLC

VARIABLES
    fs,               \* the directory: file name -> "file" | "dir" | "none"
    tmp,              \* content of temp_dir()/movcat_filelist.txt, or NoFile
    unlinks,          \* how many entries have been removed from fs since Init
    pc,               \* pc[p]: where run p is
    patterns,         \* args.inputs of run p
    ffmpeg_check,     \* concatenate_mov_files: ffmpeg_check
    idx,              \* position of the for loop run p is in
    all_files,        \* expand_glob_patterns: all_files
    input_files,      \* main: input_files
    infos,            \* validate_input_files: infos; main: file_infos
    warnings,         \* the "Warning: Different ..." lines printed by run p
    filelist_content, \* concatenate_with_ffmpeg: filelist_content
    wrote,            \* whether run p has written the file list
    engine_read,      \* what ffmpeg, invoked by run p, read as its file list
    output,           \* concatenate_with_ffmpeg: output (status, stderr)
    invocations,      \* how often run p has started `ffmpeg -f concat ...`
    remove_attempts,  \* how often run p has called remove_file on the file list
    result,           \* what main of run p returned
    arg_path,         \* the path of a direct call of analyze_mov_file
    analyzed          \* what that call returned

vars == <<fs, tmp, unlinks, pc, patterns, ffmpeg_check, idx, all_files,
          input_files, infos, warnings, filelist_content, wrote, engine_read,
          output, invocations, remove_attempts, result, arg_path, analyzed>>

\* ---------------------------------------------------------------- bounds

\* Longest token sequence a run is started with.
MaxTokens == 2

\* How many directory entries may vanish while runs are under way.
MaxUnlinks == 1

\* ------------------------------------------------------------ characters

STAR == 42

QMARK == 63

LBRACKET == 91

\* U+FFFD, what String::from_utf8_lossy puts for a byte that is not UTF-8.
REPLACEMENT_CHARACTER == 65533

\* The file names of the directory: "1", "10", "2".
Names == {<<49>>, <<49, 48>>, <<50>>}

\* The tokens a run may be given: the three names, "*", "1*", "?", "[" and "0*".
Tokens == Names \cup {<<STAR>>, <<49, STAR>>, <<QMARK>>, <<LBRACKET>>, <<48, STAR>>}

Kinds == {"file", "dir", "none"}

\* The two runs; in Spec only run 1 is started.
Procs == {1, 2}

\* The file list on disk: absent, or present with its lines.
NoFile == [present |-> FALSE, lines |-> <<>>]

FileOf(lines) == [present |-> TRUE, lines |-> lines]

SeqsUpTo(S, n) == UNION {[1..k -> S] : k \in 0..n}

\* ------------------------------------------------------------ filesystem

\* Path::exists
Exists(dir, path) == path \in DOMAIN dir /\ dir[path] # "none"

\* Path::is_file
IsFile(dir, path) == path \in DOMAIN dir /\ dir[path] = "file"

\* Path::canonicalize of an existing path: the absolute path, "/" and the name.
Canonicalize(path) == <<47>> \o path

\* PathBuf::from(pattern): the same characters, as a path.
PathBufFrom(pattern) == pattern

\* Ord of PathBuf on single-component paths: lexicographic on the characters.
RECURSIVE PathLess(_, _)
PathLess(a, b) ==
    IF b = <<>> THEN FALSE
    ELSE IF a = <<>> THEN TRUE
    ELSE IF Head(a) # Head(b) THEN Head(a) < Head(b)
    ELSE PathLess(Tail(a), Tail(b))

\* Insertion of x into a sorted sequence.
RECURSIVE Insert(_, _)
Insert(x, s) ==
    IF s = <<>> THEN <<x>>
    ELSE IF PathLess(Head(s), x) THEN <<Head(s)>> \o Insert(x, Tail(s))
    ELSE <<x>> \o s

\* pattern_files.sort()
NoSort(s) == s

RECURSIVE SortPaths(_)
SortPaths(s) ==
    IF s = <<>> THEN <<>> ELSE Insert(Head(s), SortPaths(Tail(s)))

\* ------------------------------------------------------------------ glob

\* pattern.contains('*') || pattern.contains('?') || pattern.contains('[')
IsGlob(pattern) ==
    \E i \in 1..Len(pattern) : pattern[i] \in {STAR, QMARK, LBRACKET}

\* glob(pattern) is Ok: the tokens here hold no "]", so a "[" is never closed
\* and the pattern is malformed; "*" and "?" alone are always well formed.
PatternOk(pattern) ==
    \A i \in 1..Len(pattern) : pattern[i] # LBRACKET

\* Whether the glob pattern matches the name: "*" any characters, "?" one.
RECURSIVE Matches(_, _)
Matches(pattern, name) ==
    IF pattern = <<>> THEN name = <<>>
    ELSE IF Head(pattern) = STAR
         THEN \/ Matches(Tail(pattern), name)
              \/ name # <<>> /\ Matches(pattern, Tail(name))
    ELSE IF name = <<>> THEN FALSE
    ELSE /\ Head(pattern) = QMARK \/ Head(pattern) = Head(name)
         /\ Matches(Tail(pattern), Tail(name))

\* The entries glob(pattern) yields: every entry of the directory that matches.
GlobEntries(dir, pattern) ==
    {n \in DOMAIN dir : dir[n] # "none" /\ Matches(pattern, n)}

\* The orders in which the entries of S may be enumerated.
Enumerations(S) ==
    {s \in [1..Cardinality(S) -> S] : \A x \in S : \E i \in DOMAIN s : s[i] = x}

\* The loop over glob_results: the entries that are regular files, in the
\* order enumerated.
KeepEntries(dir, order) == order

KeepFiles(dir, order) == SelectSeq(order, LAMBDA path : IsFile(dir, path))

\* all_files.extend(pattern_files) and all_files.push(path)
ExtendUnique(files, more) ==
    files \o SelectSeq(more, LAMBDA x : \A i \in DOMAIN files : files[i] # x)

Extend(files, more) == files \o more

\* ---------------------------------------------------------------- results

NoResult == [kind |-> "none", error |-> "", text |-> <<>>]

Ok == [kind |-> "Ok", error |-> "", text |-> <<>>]

Err(error, text) == [kind |-> "Err", error |-> error, text |-> text]

NoOutput == [status |-> -1, stderr |-> <<>>]

Set(f, p, v) == [f EXCEPT ![p] = v]

\* An error reaches main, which returns it: the run is over.
Bail(p, error, text) ==
    /\ result' = Set(result, p, Err(error, text))
    /\ pc' = Set(pc, p, "done")

\* ------------------------------------------------- expand_glob_patterns

\* A token without wildcard characters is pushed as it is.
ExpandLiteral(p) ==
    /\ pc[p] = "expand"
    /\ idx[p] <= Len(patterns[p])
    /\ ~IsGlob(patterns[p][idx[p]])
    /\ all_files' = Set(all_files, p,
                        Extend(all_files[p], <<PathBufFrom(patterns[p][idx[p]])>>))
    /\ idx' = Set(idx, p, idx[p] + 1)
    /\ UNCHANGED <<fs, tmp, unlinks, pc, patterns, ffmpeg_check, input_files,
                   infos, warnings, filelist_content, wrote, engine_read,
                   output, invocations, remove_attempts, result, arg_path,
                   analyzed>>

\* A glob token: its regular files, sorted, are appended.
ExpandGlob(p) ==
    /\ pc[p] = "expand"
    /\ idx[p] <= Len(patterns[p])
    /\ IsGlob(patterns[p][idx[p]])
    /\ PatternOk(patterns[p][idx[p]])
    /\ \E order \in Enumerations(GlobEntries(fs, patterns[p][idx[p]])) :
          LET pattern_files == KeepFiles(fs, order)
          IN  /\ pattern_files # <<>>
              /\ all_files' = Set(all_files, p,
                                  Extend(all_files[p], SortPaths(pattern_files)))
    /\ idx' = Set(idx, p, idx[p] + 1)
    /\ UNCHANGED <<fs, tmp, unlinks, pc, patterns, ffmpeg_check, input_files,
                   infos, warnings, filelist_content, wrote, engine_read,
                   output, invocations, remove_attempts, result, arg_path,
                   analyzed>>

\* A glob token none of whose entries is a regular file.
ExpandNoMatch(p) ==
    /\ pc[p] = "expand"
    /\ idx[p] <= Len(patterns[p])
    /\ IsGlob(patterns[p][idx[p]])
    /\ PatternOk(patterns[p][idx[p]])
    /\ \E order \in Enumerations(GlobEntries(fs, patterns[p][idx[p]])) :
          KeepFiles(fs, order) = <<>>
    /\ Bail(p, "NoMatch", patterns[p][idx[p]])
    /\ UNCHANGED <<fs, tmp, unlinks, patterns, ffmpeg_check, idx, all_files,
                   input_files, infos, warnings, filelist_content, wrote,
                   engine_read, output, invocations, remove_attempts,
                   arg_path, analyzed>>

\* glob(pattern) is an Err.
ExpandInvalidPattern(p) ==
    /\ pc[p] = "expand"
    /\ idx[p] <= Len(patterns[p])
    /\ IsGlob(patterns[p][idx[p]])
    /\ ~PatternOk(patterns[p][idx[p]])
    /\ Bail(p, "InvalidPattern", patterns[p][idx[p]])
    /\ UNCHANGED <<fs, tmp, unlinks, patterns, ffmpeg_check, idx, all_files,
                   input_files, infos, warnings, filelist_content, wrote,
                   engine_read, output, invocations, remove_attempts,
                   arg_path, analyzed>>

\* After the loop: all_files.is_empty()
ExpandEmpty(p) ==
    /\ pc[p] = "expand"
    /\ idx[p] > Len(patterns[p])
    /\ all_files[p] = <<>>
    /\ Bail(p, "NoInput", <<>>)
    /\ UNCHANGED <<fs, tmp, unlinks, patterns, ffmpeg_check, idx, all_files,
                   input_files, infos, warnings, filelist_content, wrote,
                   engine_read, output, invocations, remove_attempts,
                   arg_path, analyzed>>

\* After the loop: Ok(all_files), which main binds to input_files.
ExpandReturn(p) ==
    /\ pc[p] = "expand"
    /\ idx[p] > Len(patterns[p])
    /\ all_files[p] # <<>>
    /\ input_files' = Set(input_files, p, all_files[p])
    /\ pc' = Set(pc, p, "validate")
    /\ idx' = Set(idx, p, 1)
    /\ UNCHANGED <<fs, tmp, unlinks, patterns, ffmpeg_check, all_files,
                   infos, warnings, filelist_content, wrote, engine_read,
                   output, invocations, remove_attempts, result, arg_path,
                   analyzed>>

\* ----------------------------------------------------- analyze_mov_file

\* The record analyze_mov_file returns, whatever the path is.
MovInfo(path) ==
    [path |-> path, duration |-> 0, timescale |-> 1000, major_brand |-> "mp4",
     track_count |-> 1, video_tracks |-> 1, audio_tracks |-> 0]

analyze_mov_file(dir, path) == [ok |-> TRUE, info |-> MovInfo(path)]

\* ------------------------------------------------- validate_input_files

\* infos.push(info)
PushFront(list, info) == <<info>> \o list

Push(list, info) == Append(list, info)

\* The compatibility check: one warning for every later entry whose major
\* brand, and one for every later entry whose timescale, differs from the
\* first entry's.
CompatWarnings(list) ==
    IF Len(list) > 1
    THEN [kind \in {"brand", "timescale"} |->
            {i \in 2..Len(list) :
                IF kind = "brand"
                THEN list[i].major_brand # list[1].major_brand
                ELSE list[i].timescale # list[1].timescale}]
    ELSE [kind \in {"brand", "timescale"} |-> {}]

\* !file.exists(), the guard of the bail at the top of the loop
NeverMissing(dir, file) == FALSE

Missing(dir, file) == ~Exists(dir, file)

\* The file of this iteration does not exist.
ValidateMissing(p) ==
    /\ pc[p] = "validate"
    /\ idx[p] <= Len(input_files[p])
    /\ Missing(fs, input_files[p][idx[p]])
    /\ Bail(p, "FileNotFound", input_files[p][idx[p]])
    /\ UNCHANGED <<fs, tmp, unlinks, patterns, ffmpeg_check, idx, all_files,
                   input_files, infos, warnings, filelist_content, wrote,
                   engine_read, output, invocations, remove_attempts,
                   arg_path, analyzed>>

\* The file of this iteration exists: it is analyzed, and pushed unless the
\* analysis fails or finds no video and no audio track.
ValidateFile(p) ==
    /\ pc[p] = "validate"
    /\ idx[p] <= Len(input_files[p])
    /\ ~Missing(fs, input_files[p][idx[p]])
    /\ LET file == input_files[p][idx[p]]
           r == analyze_mov_file(fs, file)
       IN  IF ~r.ok
           THEN /\ Bail(p, "Analyze", file)
                /\ UNCHANGED <<idx, infos>>
           ELSE IF r.info.video_tracks = 0 /\ r.info.audio_tracks = 0
           THEN /\ Bail(p, "NoMediaTracks", file)
                /\ UNCHANGED <<idx, infos>>
           ELSE /\ infos' = Set(infos, p, Push(infos[p], r.info))
                /\ idx' = Set(idx, p, idx[p] + 1)
                /\ UNCHANGED <<pc, result>>
    /\ UNCHANGED <<fs, tmp, unlinks, patterns, ffmpeg_check, all_files,
                   input_files, warnings, filelist_content, wrote,
                   engine_read, output, invocations, remove_attempts,
                   arg_path, analyzed>>

\* After the loop: the compatibility warnings, then Ok(infos); main goes on to
\* concatenate_mov_files.
ValidateReturn(p) ==
    /\ pc[p] = "validate"
    /\ idx[p] > Len(input_files[p])
    /\ warnings' = Set(warnings, p, CompatWarnings(infos[p]))
    /\ pc' = Set(pc, p, "probe")
    /\ UNCHANGED <<fs, tmp, unlinks, patterns, ffmpeg_check, idx, all_files,
                   input_files, infos, filelist_content, wrote, engine_read,
                   output, invocations, remove_attempts, result, arg_path,
                   analyzed>>

\* ------------------------------------------------ concatenate_mov_files

\* What Command::new("ffmpeg").arg("-version").output() may be: an Err when
\* ffmpeg cannot be run, else Ok with a zero or a non-zero exit status.
Checks == {"Err", "OkZero", "OkNonZero"}

\* let ffmpeg_check = ...output()
Probe(p) ==
    /\ pc[p] = "probe"
    /\ \E check \in Checks : ffmpeg_check' = Set(ffmpeg_check, p, check)
    /\ pc' = Set(pc, p, "match")
    /\ UNCHANGED <<fs, tmp, unlinks, patterns, idx, all_files, input_files,
                   infos, warnings, filelist_content, wrote, engine_read,
                   output, invocations, remove_attempts, result, arg_path,
                   analyzed>>

\* match ffmpeg_check: which arm is taken
NeverErr(check) == FALSE

IsErr(check) == check = "Err"

\* Err(_) => bail
ProbeMissing(p) ==
    /\ pc[p] = "match"
    /\ IsErr(ffmpeg_check[p])
    /\ Bail(p, "ExternalToolMissing", <<>>)
    /\ UNCHANGED <<fs, tmp, unlinks, patterns, ffmpeg_check, idx, all_files,
                   input_files, infos, warnings, filelist_content, wrote,
                   engine_read, output, invocations, remove_attempts,
                   arg_path, analyzed>>

\* Ok(_) => concatenate_with_ffmpeg(infos, output_path), whatever the status
ProbeOk(p) ==
    /\ pc[p] = "match"
    /\ ~IsErr(ffmpeg_check[p])
    /\ pc' = Set(pc, p, "build")
    /\ idx' = Set(idx, p, 1)
    /\ UNCHANGED <<fs, tmp, unlinks, patterns, ffmpeg_check, all_files,
                   input_files, infos, warnings, filelist_content, wrote,
                   engine_read, output, invocations, remove_attempts, result,
                   arg_path, analyzed>>

\* ---------------------------------------------- concatenate_with_ffmpeg

\* format!("file '{}'\n", absolute_path.display())
FileLine(absolute_path) == [directive |-> "file", path |-> absolute_path]

\* filelist_content.push_str(line)
PushLine(content, line) == Append(content, line)

\* The path of this entry is canonicalized and its line appended.
BuildLine(p) ==
    /\ pc[p] = "build"
    /\ idx[p] <= Len(infos[p])
    /\ Exists(fs, infos[p][idx[p]].path)
    /\ filelist_content' =
          Set(filelist_content, p,
              PushLine(filelist_content[p],
                       FileLine(Canonicalize(infos[p][idx[p]].path))))
    /\ idx' = Set(idx, p, idx[p] + 1)
    /\ UNCHANGED <<fs, tmp, unlinks, pc, patterns, ffmpeg_check, all_files,
                   input_files, infos, warnings, wrote, engine_read, output,
                   invocations, remove_attempts, result, arg_path, analyzed>>

\* canonicalize fails: the entry has vanished since it was validated.
BuildFail(p) ==
    /\ pc[p] = "build"
    /\ idx[p] <= Len(infos[p])
    /\ ~Exists(fs, infos[p][idx[p]].path)
    /\ Bail(p, "PathResolution", infos[p][idx[p]].path)
    /\ UNCHANGED <<fs, tmp, unlinks, patterns, ffmpeg_check, idx, all_files,
                   input_files, infos, warnings, filelist_content, wrote,
                   engine_read, output, invocations, remove_attempts,
                   arg_path, analyzed>>

\* std::fs::write(&filelist_path, filelist_content) succeeds.
WriteFileList(p) ==
    /\ pc[p] = "build"
    /\ idx[p] > Len(infos[p])
    /\ tmp' = FileOf(filelist_content[p])
    /\ wrote' = Set(wrote, p, TRUE)
    /\ pc' = Set(pc, p, "invoke")
    /\ UNCHANGED <<fs, unlinks, patterns, ffmpeg_check, idx, all_files,
                   input_files, infos, warnings, filelist_content,
                   engine_read, output, invocations, remove_attempts, result,
                   arg_path, analyzed>>

\* std::fs::write fails.
WriteFail(p) ==
    /\ pc[p] = "build"
    /\ idx[p] > Len(infos[p])
    /\ Bail(p, "ManifestWrite", <<>>)
    /\ UNCHANGED <<fs, tmp, unlinks, patterns, ffmpeg_check, idx, all_files,
                   input_files, infos, warnings, filelist_content, wrote,
                   engine_read, output, invocations, remove_attempts,
                   arg_path, analyzed>>

\* What ffmpeg may write to its stderr: "", "e", and "e" with a byte that is
\* not UTF-8.
Stderrs == {<<>>, <<101>>, <<101, 255>>}

ExitCodes == {0, 1}

\* ffmpeg_cmd.output() is an Err: ffmpeg could not be started.  The `?`
\* returns at once.
InvokeFail(p) ==
    /\ pc[p] = "invoke"
    /\ invocations' = Set(invocations, p, invocations[p] + 1)
    /\ Bail(p, "ExecuteFailed", <<>>)
    /\ UNCHANGED <<fs, tmp, unlinks, patterns, ffmpeg_check, idx, all_files,
                   input_files, infos, warnings, filelist_content, wrote,
                   engine_read, output, remove_attempts, arg_path, analyzed>>

\* ffmpeg_cmd.output() is Ok: ffmpeg ran, read the file list at
\* temp_dir()/movcat_filelist.txt and exited; it cannot succeed without one.
Invoke(p) ==
    /\ pc[p] = "invoke"
    /\ \E status \in ExitCodes, stderr \in Stderrs :
          /\ tmp = NoFile => status # 0
          /\ output' = Set(output, p, [status |-> status, stderr |-> stderr])
    /\ engine_read' = Set(engine_read, p, tmp)
    /\ invocations' = Set(invocations, p, invocations[p] + 1)
    /\ pc' = Set(pc, p, "cleanup")
    /\ UNCHANGED <<fs, tmp, unlinks, patterns, ffmpeg_check, idx, all_files,
                   input_files, infos, warnings, filelist_content, wrote,
                   remove_attempts, result, arg_path, analyzed>>

\* let _ = std::fs::remove_file(&filelist_path): the file is removed, or the
\* removal fails and the failure is dropped.
CleanUp(p) ==
    /\ pc[p] = "cleanup"
    /\ remove_attempts' = Set(remove_attempts, p, remove_attempts[p] + 1)
    /\ \E removed \in BOOLEAN : tmp' = IF removed THEN NoFile ELSE tmp
    /\ pc' = Set(pc, p, "return")
    /\ UNCHANGED <<fs, unlinks, patterns, ffmpeg_check, idx, all_files,
                   input_files, infos, warnings, filelist_content, wrote,
                   engine_read, output, invocations, result, arg_path,
                   analyzed>>

\* String::from_utf8_lossy(&output.stderr): a byte that is not UTF-8 becomes
\* U+FFFD (the bytes here are ASCII or the lone byte 255).
FromUtf8Lossy(bytes) ==
    [i \in DOMAIN bytes |->
        IF bytes[i] < 128 THEN bytes[i] ELSE REPLACEMENT_CHARACTER]

\* output.status.success()
AnyStatus(status) == TRUE

Success(status) == status = 0

\* The result of concatenate_with_ffmpeg, which main returns.
Return(p) ==
    /\ pc[p] = "return"
    /\ result' = Set(result, p,
                     IF Success(output[p].status)
                     THEN Ok
                     ELSE Err("ExternalToolFailure",
                              FromUtf8Lossy(output[p].stderr)))
    /\ pc' = Set(pc, p, "done")
    /\ UNCHANGED <<fs, tmp, unlinks, patterns, ffmpeg_check, idx, all_files,
                   input_files, infos, warnings, filelist_content, wrote,
                   engine_read, output, invocations, remove_attempts,
                   arg_path, analyzed>>

\* ----------------------------------------------------------- environment

\* An entry of the directory vanishes while a run is between validation and
\* the end of the file list's construction, the only stretch in which the run
\* looks at the directory again.
Unlink ==
    /\ unlinks < MaxUnlinks
    /\ \E p \in Procs : pc[p] \in {"probe", "match", "build"}
    /\ \E n \in Names :
          /\ fs[n] # "none"
          /\ fs' = [fs EXCEPT ![n] = "none"]
    /\ unlinks' = unlinks + 1
    /\ UNCHANGED <<tmp, pc, patterns, ffmpeg_check, idx, all_files,
                   input_files, infos, warnings, filelist_content, wrote,
                   engine_read, output, invocations, remove_attempts, result,
                   arg_path, analyzed>>

\* A direct call analyze_mov_file(&arg_path), as the unit test makes it;
\* analyzed holds what it returned, once it has.
AnalyzeCall ==
    /\ arg_path # <<>>
    /\ analyzed = <<>>
    /\ analyzed' = <<analyze_mov_file(fs, arg_path)>>
    /\ UNCHANGED <<fs, tmp, unlinks, pc, patterns, ffmpeg_check, idx,
                   all_files, input_files, infos, warnings, filelist_content,
                   wrote, engine_read, output, invocations, remove_attempts,
                   result, arg_path>>

\* ------------------------------------------------------- specifications

NoWarnings == [kind \in {"brand", "timescale"} |-> {}]

\* What is the same in every initial state.
InitCommon ==
    /\ tmp = NoFile
    /\ unlinks = 0
    /\ idx = [p \in Procs |-> 1]
    /\ all_files = [p \in Procs |-> <<>>]
    /\ warnings = [p \in Procs |-> NoWarnings]
    /\ filelist_content = [p \in Procs |-> <<>>]
    /\ wrote = [p \in Procs |-> FALSE]
    /\ engine_read = [p \in Procs |-> NoFile]
    /\ output = [p \in Procs |-> NoOutput]
    /\ invocations = [p \in Procs |-> 0]
    /\ remove_attempts = [p \in Procs |-> 0]
    /\ result = [p \in Procs |-> NoResult]
    /\ analyzed = <<>>
    /\ ffmpeg_check = [p \in Procs |-> "none"]

\* One run, started on any token sequence in any directory.  The empty
\* sequence is the direct call expand_glob_patterns(&[]) of the unit test:
\* clap (required = true) does not let main see it.
Init ==
    /\ InitCommon
    /\ fs \in [Names -> Kinds]
    /\ \E tokens \in SeqsUpTo(Tokens, MaxTokens) :
          patterns = [p \in Procs |-> IF p = 1 THEN tokens ELSE <<>>]
    /\ pc = [p \in Procs |-> IF p = 1 THEN "expand" ELSE "idle"]
    /\ input_files = [p \in Procs |-> <<>>]
    /\ infos = [p \in Procs |-> <<>>]
    /\ arg_path = <<>>

Step(p) ==
    \/ ExpandLiteral(p)
    \/ ExpandGlob(p)
    \/ ExpandNoMatch(p)
    \/ ExpandInvalidPattern(p)
    \/ ExpandEmpty(p)
    \/ ExpandReturn(p)
    \/ ValidateMissing(p)
    \/ ValidateFile(p)
    \/ ValidateReturn(p)
    \/ Probe(p)
    \/ ProbeMissing(p)
    \/ ProbeOk(p)
    \/ BuildLine(p)
    \/ BuildFail(p)
    \/ WriteFileList(p)
    \/ WriteFail(p)
    \/ InvokeFail(p)
    \/ Invoke(p)
    \/ CleanUp(p)
    \/ Return(p)

Next == (\E p \in Procs : Step(p)) \/ Unlink

Spec == Init /\ [][Next]_vars

\* Direct calls of analyze_mov_file on any path of any directory; no run is
\* started.
InitInspect ==
    /\ InitCommon
    /\ fs \in [Names -> Kinds]
    /\ arg_path \in Names
    /\ patterns = [p \in Procs |-> <<>>]
    /\ pc = [p \in Procs |-> "idle"]
    /\ input_files = [p \in Procs |-> <<>>]
    /\ infos = [p \in Procs |-> <<>>]

NextInspect == AnalyzeCall

SpecInspect == InitInspect /\ [][NextInspect]_vars

\* The infos validate_input_files returns for these files.
InfosOf(files) == [i \in 1..Len(files) |-> MovInfo(files[i])]

\* Two runs of the tool at once, each given one existing file, not the same
\* one; both have validated their file and are about to probe for ffmpeg.
InitConc ==
    /\ tmp = NoFile
    /\ unlinks = 0
    /\ fs = [n \in Names |-> "file"]
    /\ patterns \in [Procs -> [1..1 -> Names]]
    /\ patterns[1] # patterns[2]
    /\ ffmpeg_check = [p \in Procs |-> "none"]
    /\ pc = [p \in Procs |-> "probe"]
    /\ idx = [p \in Procs |-> Len(patterns[p]) + 1]
    /\ all_files = patterns
    /\ input_files = patterns
    /\ infos = [p \in Procs |-> InfosOf(patterns[p])]
    /\ warnings = [p \in Procs |-> NoWarnings]
    /\ filelist_content = [p \in Procs |-> <<>>]
    /\ wrote = [p \in Procs |-> FALSE]
    /\ engine_read = [p \in Procs |-> NoFile]
    /\ output = [p \in Procs |-> NoOutput]
    /\ invocations = [p \in Procs |-> 0]
    /\ remove_attempts = [p \in Procs |-> 0]
    /\ result = [p \in Procs |-> NoResult]
    /\ arg_path = <<>>
    /\ analyzed = <<>>

Concatenate(p) ==
    \/ Probe(p)
    \/ ProbeMissing(p)
    \/ ProbeOk(p)
    \/ BuildLine(p)
    \/ BuildFail(p)
    \/ WriteFileList(p)
    \/ WriteFail(p)
    \/ InvokeFail(p)
    \/ Invoke(p)
    \/ CleanUp(p)
    \/ Return(p)

NextConc == (\E p \in Procs : Concatenate(p)) \/ Unlink

SpecConc == InitConc /\ [][NextConc]_vars

\* ================================================================ claims

\* Run p has left expand_glob_patterns with Ok.
Expanded(p) == pc[p] \notin {"idle", "expand"} /\ input_files[p] # <<>>

\* Run p has left expand_glob_patterns with an error.
ExpandFailed(p) ==
    /\ pc[p] = "done"
    /\ result[p].kind = "Err"
    /\ result[p].error \in {"NoInput", "InvalidPattern", "NoMatch"}

\* Run p has left validate_input_files with an error.
ValidateFailed(p) ==
    /\ pc[p] = "done"
    /\ result[p].kind = "Err"
    /\ result[p].error \in {"FileNotFound", "NoMediaTracks", "Analyze"}

\* Run p has left validate_input_files with Ok.
Validated(p) == Expanded(p) /\ pc[p] # "validate" /\ ~ValidateFailed(p)

\* The file list that has one line for every file, in the order of the files.
ManifestOf(files) ==
    [i \in 1..Len(files) |-> FileLine(Canonicalize(files[i]))]

\* The regular files a glob token matches.
MatchedFiles(dir, token) == {n \in DOMAIN dir : IsFile(dir, n) /\ Matches(token, n)}

\* The one sequence that lists the paths of S in increasing order.
Sorted(S) ==
    CHOOSE s \in [1..Cardinality(S) -> S] :
        \A i, j \in 1..Cardinality(S) : i < j => PathLess(s[i], s[j])

\* What one token expands to.
Expansion(dir, token) ==
    IF IsGlob(token) THEN Sorted(MatchedFiles(dir, token)) ELSE <<token>>

\* The expansions of the tokens, one after the other in token order.
RECURSIVE Expansions(_, _)
Expansions(dir, tokens) ==
    IF tokens = <<>> THEN <<>>
    ELSE Expansion(dir, Head(tokens)) \o Expansions(dir, Tail(tokens))

\* How often x occurs in s.
Count(s, x) == Cardinality({i \in DOMAIN s : s[i] = x})

\* C1: whenever a run has come to the invocation of ffmpeg, the file list it
\* built and wrote, and the one ffmpeg read, has exactly one line
\* file '<canonical path>' per entry of the list expand_glob_patterns
\* returned, in that list's order.
C1_ManifestFollowsResolvedOrder ==
    \A p \in Procs :
        pc[p] \in {"invoke", "cleanup", "return"} \/ invocations[p] > 0 =>
            /\ wrote[p]
            /\ filelist_content[p] = ManifestOf(input_files[p])
            /\ pc[p] = "invoke" => tmp = FileOf(ManifestOf(input_files[p]))
            /\ pc[p] \in {"cleanup", "return"} =>
                  engine_read[p] = FileOf(ManifestOf(input_files[p]))

\* C1 witness: the literal tokens "2" then "1"; ffmpeg has read the two lines
\* file '/2' and file '/1', in this order.
C1_Witness ==
    /\ patterns[1] = <<<<50>>, <<49>>>>
    /\ pc[1] = "cleanup"
    /\ engine_read[1] =
          FileOf(<<FileLine(<<47, 50>>), FileLine(<<47, 49>>)>>)

\* C2: as long as the directory is as it was, what expand_glob_patterns has
\* collected after k tokens, and what it returns, is the concatenation in
\* token order of the expansions of the tokens: a token without wildcard is
\* itself, a glob token is its matching regular files in increasing order,
\* whatever the order of the enumeration.
C2_ResultIsConcatenationOfExpansions ==
    \A p \in Procs :
        unlinks = 0 =>
            /\ pc[p] = "expand" =>
                  all_files[p] =
                      Expansions(fs, SubSeq(patterns[p], 1, idx[p] - 1))
            /\ Expanded(p) => input_files[p] = Expansions(fs, patterns[p])

\* C2 witness: the tokens "2" then "*" in a directory of three regular files
\* yield "2", "1", "10", "2".
C2_Witness ==
    /\ patterns[1] = <<<<50>>, <<STAR>>>>
    /\ unlinks = 0
    /\ Expanded(1)
    /\ input_files[1] = <<<<50>>, <<49>>, <<49, 48>>, <<50>>>>

\* C3: a run that has written the file list and has returned has called
\* remove_file on it.
C3_RemovalAlwaysAttempted ==
    \A p \in Procs :
        wrote[p] /\ pc[p] = "done" => remove_attempts[p] >= 1

\* C4: when the probe is an Err, the run ends with ExternalToolMissing and
\* never builds a line, writes the file list, removes it or invokes ffmpeg.
C4_ToolMissingWritesNothing ==
    \A p \in Procs :
        ffmpeg_check[p] = "Err" =>
            /\ pc[p] \in {"match", "done"}
            /\ pc[p] = "done" => result[p] = Err("ExternalToolMissing", <<>>)
            /\ filelist_content[p] = <<>>
            /\ ~wrote[p]
            /\ tmp = NoFile
            /\ remove_attempts[p] = 0
            /\ invocations[p] = 0

\* C4 witness: a run of two validated files has ended with ExternalToolMissing.
C4_Witness ==
    /\ pc[1] = "done"
    /\ ffmpeg_check[1] = "Err"
    /\ result[1] = Err("ExternalToolMissing", <<>>)
    /\ Len(infos[1]) = 2

\* Some glob token of the sequence is malformed.
SomeMalformed(tokens) ==
    \E k \in DOMAIN tokens : IsGlob(tokens[k]) /\ ~PatternOk(tokens[k])

\* Some well-formed glob token of the sequence matches no regular file.
SomeUnmatched(dir, tokens) ==
    \E k \in DOMAIN tokens :
        IsGlob(tokens[k]) /\ PatternOk(tokens[k]) /\ MatchedFiles(dir, tokens[k]) = {}

\* C5: as long as the directory is as it was, a run that has left
\* expand_glob_patterns has left it with an error exactly when the token
\* sequence is empty, or a glob token is malformed, or a glob token matches no
\* regular file; NoInput comes of the empty sequence only, InvalidPattern of
\* a malformed token only, NoMatch of an unmatched token only; and a returned
\* list is not empty.
C5_ErrorExactlyOnBadInput ==
    \A p \in Procs :
        unlinks = 0 /\ pc[p] \notin {"idle", "expand"} =>
            /\ ExpandFailed(p) <=>
                  \/ patterns[p] = <<>>
                  \/ SomeMalformed(patterns[p])
                  \/ SomeUnmatched(fs, patterns[p])
            /\ ExpandFailed(p) /\ result[p].error = "NoInput" =>
                  patterns[p] = <<>>
            /\ ExpandFailed(p) /\ result[p].error = "InvalidPattern" =>
                  SomeMalformed(patterns[p])
            /\ ExpandFailed(p) /\ result[p].error = "NoMatch" =>
                  SomeUnmatched(fs, patterns[p])
            /\ ExpandFailed(p) <=> input_files[p] = <<>>

\* C5 witness: "1" is a regular file, and the tokens "1" then "0*" end in
\* NoMatch although the first token yielded a file.
C5_Witness ==
    /\ patterns[1] = <<<<49>>, <<48, STAR>>>>
    /\ fs[<<49>>] = "file"
    /\ all_files[1] = <<<<49>>>>
    /\ pc[1] = "done"
    /\ result[1] = Err("NoMatch", <<48, STAR>>)

\* The entry has neither a video nor an audio track.
NoTracks(info) == info.video_tracks = 0 /\ info.audio_tracks = 0

C7_AnalyzeFailsOnMissingFile ==
    \A k \in DOMAIN analyzed : analyzed[k].ok => Exists(fs, arg_path)

\* C8, as claimed: no path occurs twice in the list expand_glob_patterns
\* returns.
C8_NoPathTwice ==
    \A p \in Procs :
        Expanded(p) =>
            \A i, j \in DOMAIN input_files[p] :
                i # j => input_files[p][i] # input_files[p][j]

\* The paths token k of the sequence yields.
Yields(dir, token) ==
    IF IsGlob(token) THEN MatchedFiles(dir, token) ELSE {token}

\* C8, as amended: as long as the directory is as it was, a path occurs in
\* the returned list once for every token that yields it: never twice from
\* one token, and again for every further token that names or matches it.
C8_OncePerYieldingToken ==
    \A p \in Procs :
        unlinks = 0 /\ Expanded(p) =>
            \A x \in Names :
                Count(input_files[p], x) =
                    Cardinality({k \in DOMAIN patterns[p] :
                                    x \in Yields(fs, patterns[p][k])})

\* C8 witness: the tokens "1" then "1*" yield "1", "1", "10".
C8_Witness ==
    /\ patterns[1] = <<<<49>>, <<49, STAR>>>>
    /\ unlinks = 0
    /\ Expanded(1)
    /\ input_files[1] = <<<<49>>, <<49>>, <<49, 48>>>>

\* C9: ffmpeg is invoked at most once, and only after expansion, validation
\* of every file and the probe have succeeded and the file list is written;
\* the run returns Ok exactly when it has ended and that invocation exited
\* with status zero; after a non-zero status it returns ExternalToolFailure
\* whose text is the captured stderr, byte for character where the byte is
\* ASCII.
C9_InvokedOnceAndResultIsExitStatus ==
    \A p \in Procs :
        /\ invocations[p] <= 1
        /\ invocations[p] = 1 =>
              /\ Expanded(p)
              /\ Len(infos[p]) = Len(input_files[p])
              /\ ffmpeg_check[p] \in {"OkZero", "OkNonZero"}
              /\ wrote[p]
        /\ result[p] = Ok <=>
              pc[p] = "done" /\ invocations[p] = 1 /\ output[p].status = 0
        /\ pc[p] = "done" /\ output[p].status > 0 =>
              /\ result[p].kind = "Err"
              /\ result[p].error = "ExternalToolFailure"
              /\ Len(result[p].text) = Len(output[p].stderr)
              /\ \A i \in DOMAIN output[p].stderr :
                    output[p].stderr[i] < 128 =>
                        result[p].text[i] = output[p].stderr[i]

\* C9 witness: the one invocation exited with status 1 and "e" on stderr; the
\* run has ended with ExternalToolFailure carrying "e".
C9_Witness ==
    /\ pc[1] = "done"
    /\ invocations[1] = 1
    /\ output[1] = [status |-> 1, stderr |-> <<101>>]
    /\ result[1] = Err("ExternalToolFailure", <<101>>)

\* C10: the ffmpeg of a run reads the file list this run wrote.
C10_EngineReadsOwnManifest ==
    \A p \in Procs :
        pc[p] \in {"cleanup", "return"} =>
            engine_read[p] = FileOf(filelist_content[p])

====
